---- MODULE Spec2Model ----
(***************************************************************************)
(* Model of mae_boxplots.py: a sequential script that, for every active    *)
(* basis, runs three plotting passes over CSV files found by naming        *)
(* convention and writes one figure per pass and basis.                    *)
(*                                                                         *)
(* Conventions of the model:                                               *)
(*   - a path is the tuple of its components;                              *)
(*   - a "Validation MAE" value is held in thousandths (1400 is 1.4);      *)
(*   - a mean is the pair num/den of the column sum and the row count,     *)
(*     den = 0 standing for NaN (the mean of a table without rows);        *)
(*   - a rendered number is [hund, suffix]: the printed two-decimal        *)
(*     number in hundredths and the text that follows it.                  *)
(***************************************************************************)
EXTENDS Integers, Sequences, FiniteSets, TLC

VARIABLES fs, figures, dirs, run, pc, idx, log, io, frames, renders, best, prev

vars == <<fs, figures, dirs, run, pc, idx, log, io, frames, renders, best, prev>>

\* Number of times the whole script is run over the same input files.
MaxRuns == 2

-----------------------------------------------------------------------------
(* Configuration                                                           *)

bases_config ==
  << [name |-> "Monomial",   active |-> FALSE, display_name |-> "Monomial"],
     [name |-> "Chebyshev",  active |-> TRUE,  display_name |-> "Chebyshev"],
     [name |-> "Legendre",   active |-> TRUE,  display_name |-> "Legendre"],
     [name |-> "Jacobi",     active |-> FALSE, display_name |-> "Jacobi"],
     [name |-> "PPR",        active |-> FALSE, display_name |-> "PPR"],
     [name |-> "SChebyshev", active |-> FALSE, display_name |-> "Scaled Chebyshev"] >>

BasisNames == { bases_config[i].name : i \in DOMAIN bases_config }

ConfigOf(basis) ==
  bases_config[CHOOSE i \in DOMAIN bases_config : bases_config[i].name = basis]

IsActive(cfg) == cfg.active

\* the list comprehension without its "if cfg[active]"
active_bases_unfiltered == [ i \in DOMAIN bases_config |-> bases_config[i].name ]

active_bases ==
  LET act == SelectSeq(bases_config, IsActive)
  IN  [ i \in DOMAIN act |-> act[i].name ]

drive_base == "/content/drive/MyDrive/mae_files"

filters == << "g0", "g1", "g2", "g3" >>

models == << "APPNP", "AFDGCN", "GPRGNN" >>

\* str.lower() on the names the script lowers
Lower(s) ==
  CASE s = "Monomial"   -> "monomial"
    [] s = "Chebyshev"  -> "chebyshev"
    [] s = "Legendre"   -> "legendre"
    [] s = "Jacobi"     -> "jacobi"
    [] s = "PPR"        -> "ppr"
    [] s = "SChebyshev" -> "schebyshev"
    [] s = "APPNP"      -> "appnp"
    [] s = "AFDGCN"     -> "afdgcn"
    [] s = "GPRGNN"     -> "gprgnn"

\* str.upper() on a filter name
Upper(s) ==
  CASE s = "g0" -> "G0"
    [] s = "g1" -> "G1"
    [] s = "g2" -> "G2"
    [] s = "g3" -> "G3"

-----------------------------------------------------------------------------
(* File resolution                                                         *)

Join(path, name) == Append(path, name)

Dirname(path) == SubSeq(path, 1, Len(path) - 1)

FolderPath(basis) == Join(<< drive_base >>, Lower(basis))

GarnoldiName(basis, filt) ==
  "mae_values_garnoldi_" \o Lower(basis) \o "_" \o filt \o ".csv"

ModelName(model, basis) ==
  "mae_values_" \o Lower(model) \o "_" \o Lower(basis) \o ".csv"

GarnoldiPath(basis, filt) == Join(FolderPath(basis), GarnoldiName(basis, filt))

ModelPath(model, basis) == Join(FolderPath(basis), ModelName(model, basis))

Range(s) == { s[i] : i \in DOMAIN s }

\* every path the naming conventions can produce, for every configured basis
AllPaths ==
  { GarnoldiPath(b, f) : b \in BasisNames, f \in Range(filters) }
    \cup { ModelPath(m, b) : m \in Range(models), b \in BasisNames }

\* the entry of the file system for a path at which no file exists
Absent == [exists |-> FALSE, rows |-> << >>]

File(rows) == [exists |-> TRUE, rows |-> rows]

\* a test of existence that every path passes
ExistsAlways(path) == TRUE

\* os.path.exists
Exists(path) == fs[path].exists

\* the text of a path, as the script prints it
RECURSIVE PathStr(_)
PathStr(path) ==
  IF Len(path) = 1 THEN path[1]
  ELSE PathStr(Dirname(path)) \o "/" \o path[Len(path)]

-----------------------------------------------------------------------------
(* Tables                                                                  *)

\* pd.DataFrame(): a table is the sequence of its rows; a row holds its
\* "Validation MAE" value, the columns the script added, and the path of the
\* file it was read from (kept for the record, not a column)
EmptyFrame == << >>

NoCols == [ c \in {} |-> "" ]

\* pd.read_csv on an existing file
ReadCsv(path) ==
  [ r \in 1..Len(fs[path].rows) |->
      [mae |-> fs[path].rows[r], cols |-> NoCols, src |-> path] ]

\* df[col] = val
SetCol(df, col, val) ==
  [ r \in DOMAIN df |-> [df[r] EXCEPT !.cols = (col :> val) @@ @] ]

\* pd.concat([a, b], ignore_index=True)
Concat(a, b) == a \o b

\* a test of emptiness that no table passes
IsEmptyNever(df) == FALSE

\* df.empty
IsEmpty(df) == Len(df) = 0

RECURSIVE SumMae(_)
SumMae(df) ==
  IF Len(df) = 0 THEN 0 ELSE SumMae(SubSeq(df, 1, Len(df) - 1)) + df[Len(df)].mae

\* df["Validation MAE"].mean(): the sum over the count, NaN without rows
Mean(df) == [num |-> SumMae(df), den |-> Len(df)]

IsNaN(m) == m.den = 0

\* a < b on floats: false as soon as one side is NaN
Less(a, b) == ~IsNaN(a) /\ ~IsNaN(b) /\ a.num * b.den < b.num * a.den

\* df[col].unique(): the values of a column in order of first appearance
RECURSIVE Unique(_, _)
Unique(df, col) ==
  IF Len(df) = 0 THEN << >>
  ELSE LET u == Unique(SubSeq(df, 1, Len(df) - 1), col)
           v == df[Len(df)].cols[col]
       IN  IF v \in Range(u) THEN u ELSE Append(u, v)

HasVal(row, col, val) == row.cols[col] = val

\* df[df[col] == val]
Where(df, col, val) == SelectSeq(df, LAMBDA row : HasVal(row, col, val))

-----------------------------------------------------------------------------
(* Number formatting                                                       *)

\* n / d rounded to the nearest integer, an exact tie going to the even one
RoundHalfEven(n, d) ==
  LET q == n \div d
      r == n % d
  IN  IF 2 * r < d THEN q
      ELSE IF 2 * r > d THEN q + 1
      ELSE IF q % 2 = 0 THEN q ELSE q + 1

\* f"{mean_val:.2f}" of a mean held in thousandths
Fixed2(m) == [hund |-> RoundHalfEven(m.num, 10 * m.den), suffix |-> ""]

\* format_val with "val > 1000" for its test
format_val_above(m) ==
  IF m.num > 1000 * 1000 * m.den
    THEN [hund |-> RoundHalfEven(m.num, 10 * 1000 * m.den), suffix |-> "K"]
    ELSE Fixed2(m)

\* format_val: val >= 1000 is printed as val/1000 followed by K
format_val(m) ==
  IF m.num >= 1000 * 1000 * m.den
    THEN [hund |-> RoundHalfEven(m.num, 10 * 1000 * m.den), suffix |-> "K"]
    ELSE Fixed2(m)

-----------------------------------------------------------------------------
(* Effects of one loop iteration                                           *)

(* The running state of an iteration: the combined table df, the console   *)
(* output, the file operations performed, whether an exception was raised, *)
(* the figures and directories on disk, the combined table every          *)
(* iteration ended with, the figures handed to the renderer, and Plot 3's  *)
(* selection per basis.                                                    *)

\* the combined table an iteration ends with is kept for the record
Keep(acc, pass, basis) ==
  IF acc.exc THEN acc
  ELSE [acc EXCEPT !.frames = Append(@, [pass |-> pass, basis |-> basis,
                                         data |-> acc.df])]

\* print(line)
Say(acc, line) == [acc EXCEPT !.log = Append(@, line)]

\* a file operation on a path is performed
Did(acc, op, path) == [acc EXCEPT !.io = Append(@, << op, path >>)]

\* the call pd.read_csv(path): FileNotFoundError when no file is there
Load(acc, path) ==
  LET a == Did(acc, "read", path)
  IN  IF fs[path].exists THEN a ELSE [a EXCEPT !.exc = TRUE]

RECURSIVE Prefixes(_)
Prefixes(path) ==
  IF Len(path) = 0 THEN {} ELSE { path } \cup Prefixes(Dirname(path))

\* os.makedirs(dir, exist_ok=True)
MakeDirs(acc, dir) ==
  [Did(acc, "makedirs", dir) EXCEPT !.dirs = @ \cup Prefixes(dir)]

\* savefig that leaves a file alone when one is already at the path
WrittenKeepOld(disk, path, picture) ==
  disk @@ (path :> [run |-> run, data |-> picture.data, notes |-> picture.notes])

\* savefig that writes beside a file already at the path, under a new name
WrittenBeside(disk, path, picture) ==
  LET free == IF path \in DOMAIN disk
                THEN Join(Dirname(path), path[Len(path)] \o ".1")
                ELSE path
  IN  (free :> [run |-> run, data |-> picture.data, notes |-> picture.notes])
        @@ disk

\* what savefig leaves at path: the figure of this run replaces the file
Written(disk, path, picture) ==
  (path :> [run |-> run, data |-> picture.data, notes |-> picture.notes]) @@ disk

\* plt.savefig(out_path): fails when the directory does not exist
SaveFig(acc, path, picture) ==
  LET a == Did(acc, "savefig", path)
  IN  IF Dirname(path) \notin a.dirs
        THEN [a EXCEPT !.exc = TRUE]
        ELSE [a EXCEPT !.figures = Written(@, path, picture),
                       !.renders = Append(@, picture)]

\* makedirs, savefig and the "Saved" line that end every drawing
Emit(acc, picture) ==
  LET a1 == MakeDirs(acc, Dirname(picture.path))
      a2 == SaveFig(a1, picture.path, picture)
  IN  IF a2.exc THEN a2 ELSE Say(a2, "Saved: " \o PathStr(picture.path))

-----------------------------------------------------------------------------
(* Plot 1: the four Garnoldi filters of a basis                            *)

OutPath1(basis) ==
  << "figures", Lower(basis),
     "garnoldi_filter_boxplot_" \o Lower(basis) \o ".png" >>

\* Plot1Filter with a row put in the table for a file that is missing
Plot1FilterPlaceholder(acc, basis, filt) ==
  LET filename  == GarnoldiName(basis, filt)
      full_path == Join(FolderPath(basis), filename)
      a1        == Did(acc, "exists", full_path)
      df        == IF Exists(full_path) THEN ReadCsv(full_path)
                   ELSE << [mae |-> 0, cols |-> NoCols, src |-> full_path] >>
      tagged    == SetCol(SetCol(df, "Filter", filt),
                          "Basis", ConfigOf(basis).display_name)
  IN  IF acc.exc THEN acc
      ELSE IF Exists(full_path)
        THEN [Load(Say(a1, "Loaded: " \o filename), full_path)
                EXCEPT !.df = Concat(@, tagged)]
        ELSE [Say(a1, "Missing file: " \o filename)
                EXCEPT !.df = Concat(@, tagged)]

\* one iteration of "for filt in filters"
Plot1Filter(acc, basis, filt) ==
  LET filename  == GarnoldiName(basis, filt)
      full_path == Join(FolderPath(basis), filename)
      a1        == Did(acc, "exists", full_path)
  IN  IF acc.exc THEN acc
      ELSE IF Exists(full_path)
        THEN LET a2 == Load(Say(a1, "Loaded: " \o filename), full_path)
                 df == SetCol(SetCol(ReadCsv(full_path), "Filter", filt),
                              "Basis", ConfigOf(basis).display_name)
             IN  IF a2.exc THEN a2 ELSE [a2 EXCEPT !.df = Concat(@, df)]
        ELSE Say(a1, "Missing file: " \o filename)

RECURSIVE Plot1Load(_, _, _)
Plot1Load(acc, basis, n) ==
  IF n = 0 THEN acc
  ELSE LET before == Plot1Load(acc, basis, n - 1)
       IN  Plot1Filter(before, basis, filters[n])

\* the mean of every category on the x axis, printed with two decimals
Annotate1(df, col) ==
  LET u == Unique(df, col)
  IN  [ i \in DOMAIN u |->
          [cat |-> u[i], at |-> i, label |-> Fixed2(Mean(Where(df, col, u[i])))] ]

Plot1Draw(acc, basis) ==
  LET picture == [pass  |-> 1, basis |-> basis, path |-> OutPath1(basis),
                  data  |-> acc.df, notes |-> Annotate1(acc.df, "Filter")]
  IN  Emit(Say(acc, "Drawing Garnoldi filter boxplot..."), picture)

Plot1Body(acc, basis) ==
  LET a0 == Say([acc EXCEPT !.df = EmptyFrame],
                "[BASIS: " \o ConfigOf(basis).display_name
                   \o "] Loading Garnoldi filter data...")
      a1 == Plot1Load(a0, basis, Len(filters))
      a2 == IF a1.exc \/ IsEmpty(a1.df) THEN a1 ELSE Plot1Draw(a1, basis)
  IN  Keep(a2, 1, basis)

-----------------------------------------------------------------------------
(* Plot 2: every Garnoldi filter next to the other models                  *)

OutPath2(basis) ==
  << "figures", Lower(basis),
     "all_models_comparison_" \o Lower(basis) \o "_cleaned.png" >>

\* Gather with the name of the file put in the Model column
GatherFileName(acc, fpath, tag) ==
  LET a1 == Did(acc, "exists", fpath)
  IN  IF acc.exc THEN acc
      ELSE IF Exists(fpath)
        THEN LET a2 == Load(a1, fpath)
                 df == SetCol(ReadCsv(fpath), "Model", fpath[Len(fpath)])
             IN  IF a2.exc THEN a2 ELSE [a2 EXCEPT !.df = Concat(@, df)]
        ELSE a1

\* if os.path.exists(fpath): read it, tag it Model = tag, append it
Gather(acc, fpath, tag) ==
  LET a1 == Did(acc, "exists", fpath)
  IN  IF acc.exc THEN acc
      ELSE IF Exists(fpath)
        THEN LET a2 == Load(a1, fpath)
                 df == SetCol(ReadCsv(fpath), "Model", tag)
             IN  IF a2.exc THEN a2 ELSE [a2 EXCEPT !.df = Concat(@, df)]
        ELSE a1

RECURSIVE Plot2Filters(_, _, _)
Plot2Filters(acc, basis, n) ==
  IF n = 0 THEN acc
  ELSE LET before == Plot2Filters(acc, basis, n - 1)
       IN  Gather(before, GarnoldiPath(basis, filters[n]),
                  "Garnoldi-" \o filters[n])

\* for model in ["APPNP", "AFDGCN", "GPRGNN"]
RECURSIVE GatherModels(_, _, _)
GatherModels(acc, basis, n) ==
  IF n = 0 THEN acc
  ELSE LET before == GatherModels(acc, basis, n - 1)
       IN  Gather(before, ModelPath(models[n], basis), models[n])

\* the mean of every model, printed by format_val
Annotate2(df) ==
  LET u == Unique(df, "Model")
  IN  [ i \in DOMAIN u |->
          [cat |-> u[i], at |-> i,
           label |-> format_val(Mean(Where(df, "Model", u[i])))] ]

Plot2Draw(acc, basis) ==
  LET picture == [pass  |-> 2, basis |-> basis, path |-> OutPath2(basis),
                  data  |-> acc.df, notes |-> Annotate2(acc.df)]
  IN  Emit(Say(acc, "Drawing full model comparison boxplot..."), picture)

Plot2Body(acc, basis) ==
  LET a0 == Say([acc EXCEPT !.df = EmptyFrame],
                "[BASIS: " \o ConfigOf(basis).display_name
                   \o "] Comparing all models...")
      a1 == Plot2Filters(a0, basis, Len(filters))
      a2 == GatherModels(a1, basis, Len(models))
      a3 == IF a2.exc \/ IsEmpty(a2.df) THEN a2 ELSE Plot2Draw(a2, basis)
  IN  Keep(a3, 2, basis)

-----------------------------------------------------------------------------
(* Plot 3: the best Garnoldi filter next to the other models               *)

OutPath3(basis) ==
  << "figures", Lower(basis),
     "best_garnoldi_vs_models_" \o Lower(basis) \o ".png" >>

\* one iteration of the loop filling filter_mae_means; the dict is kept as
\* the sequence of its keys in insertion order and the map of its values
MeanOfFilter(acc, basis, filt) ==
  LET fpath == GarnoldiPath(basis, filt)
      a1    == Did(acc, "exists", fpath)
  IN  IF acc.exc THEN acc
      ELSE IF Exists(fpath)
        THEN LET a2 == Load(a1, fpath)
             IN  IF a2.exc THEN a2
                 ELSE [a2 EXCEPT !.keys  = Append(@, filt),
                                 !.means = (filt :> Mean(ReadCsv(fpath))) @@ @]
        ELSE a1

RECURSIVE FilterMeans(_, _, _)
FilterMeans(acc, basis, n) ==
  IF n = 0 THEN acc
  ELSE LET before == FilterMeans(acc, basis, n - 1)
       IN  MeanOfFilter(before, basis, filters[n])

\* min(keys, key=means.get): the first key is kept until a later one has a
\* strictly smaller value
RECURSIVE MinKey(_, _, _)
MinKey(keys, means, n) ==
  IF n = 1 THEN keys[1]
  ELSE LET cur == MinKey(keys, means, n - 1)
       IN  IF Less(means[keys[n]], means[cur]) THEN keys[n] ELSE cur

BestFilter(keys, means) == MinKey(keys, means, Len(keys))

Plot3Draw(acc, basis) ==
  LET picture == [pass  |-> 3, basis |-> basis, path |-> OutPath3(basis),
                  data  |-> acc.df, notes |-> Annotate1(acc.df, "Model")]
  IN  Emit(Say(acc, "Drawing best Garnoldi filter vs models boxplot..."), picture)

\* from the selection of the best filter to the end of the iteration
Plot3Best(acc, basis) ==
  LET best_filter == BestFilter(acc.keys, acc.means)
      best_path   == GarnoldiPath(basis, best_filter)
      a1 == Say([acc EXCEPT !.best =
                   (basis :> [means |-> acc.means, filter |-> best_filter]) @@ @],
                "Best Garnoldi filter: " \o Upper(best_filter))
      a2 == Load(a1, best_path)
      a3 == [a2 EXCEPT !.df = Concat(@, SetCol(ReadCsv(best_path), "Model",
                                               "Garnoldi-" \o best_filter))]
      a4 == GatherModels(a3, basis, Len(models))
  IN  IF a2.exc THEN a2
      ELSE IF a4.exc \/ IsEmpty(a4.df) THEN a4
      ELSE Plot3Draw(a4, basis)

\* Plot3Body without the "continue": the models are still gathered and drawn
Plot3BodyNoSkip(acc, basis) ==
  LET a0 == Say([acc EXCEPT !.df = EmptyFrame, !.keys = << >>, !.means = << >>],
                "[BASIS: " \o ConfigOf(basis).display_name
                   \o "] Selecting best Garnoldi filter...")
      a1 == FilterMeans(a0, basis, Len(filters))
      a2 == GatherModels(Say(a1, "No valid Garnoldi files found."), basis,
                         Len(models))
      a3 == IF a1.exc THEN a1
            ELSE IF a1.keys = << >>
              THEN (IF a2.exc \/ IsEmpty(a2.df) THEN a2 ELSE Plot3Draw(a2, basis))
            ELSE Plot3Best(a1, basis)
  IN  Keep(a3, 3, basis)

Plot3Body(acc, basis) ==
  LET a0 == Say([acc EXCEPT !.df = EmptyFrame, !.keys = << >>, !.means = << >>],
                "[BASIS: " \o ConfigOf(basis).display_name
                   \o "] Selecting best Garnoldi filter...")
      a1 == FilterMeans(a0, basis, Len(filters))
      a2 == IF a1.exc THEN a1
            ELSE IF a1.keys = << >> THEN Say(a1, "No valid Garnoldi files found.")
            ELSE Plot3Best(a1, basis)
  IN  Keep(a2, 3, basis)

-----------------------------------------------------------------------------
(* Input files                                                             *)

\* the contents a Garnoldi filter file is drawn from: a header without rows,
\* one row of 1.4, two rows 900.0 and 1100.0 of mean 1000.0
FilterPool == { << >>, << 1400 >>, << 900000, 1100000 >> }

\* the rows of a model's file: 1250.0, 850.0 and 3.456
ModelRows(model) ==
  CASE model = "APPNP"  -> << 1250000 >>
    [] model = "AFDGCN" -> << 850000 >>
    [] model = "GPRGNN" -> << 3456 >>

\* a folder: per filter its file or Absent, and the models whose file exists
Folders ==
  [ g : [Range(filters) -> { Absent } \cup { File(rows) : rows \in FilterPool }],
    m : SUBSET Range(models) ]

EmptyFolder == [g |-> [f \in Range(filters) |-> Absent], m |-> {}]

FullFolder ==
  [g |-> [f \in Range(filters) |-> File(<< 1400 >>)], m |-> Range(models)]

\* the file system in which every basis b has the folder layout[b]
FileSystem(layout) ==
  [ p \in AllPaths |->
      LET b == CHOOSE x \in BasisNames : Dirname(p) = FolderPath(x)
      IN  IF \E f \in Range(filters) : p = GarnoldiPath(b, f)
            THEN layout[b].g[CHOOSE f \in Range(filters) : p = GarnoldiPath(b, f)]
            ELSE LET mo == CHOOSE x \in Range(models) : p = ModelPath(x, b)
                 IN  IF mo \in layout[b].m THEN File(ModelRows(mo)) ELSE Absent ]

\* One flagged basis has any folder, the other flagged one is empty or full,
\* every unflagged basis has all its files.
Layouts ==
  { [ b \in BasisNames |->
        IF b = v THEN folder
        ELSE IF ConfigOf(b).active THEN plain
        ELSE FullFolder ] :
      v \in { b \in BasisNames : ConfigOf(b).active },
      folder \in Folders,
      plain \in { EmptyFolder, FullFolder } }

-----------------------------------------------------------------------------
(* The script as a state machine                                           *)

NoOutput == [frames |-> << >>, renders |-> << >>, best |-> << >>,
             log |-> << >>, io |-> << >>, figs |-> {}]

Init ==
  /\ fs \in { FileSystem(layout) : layout \in Layouts }
  /\ figures = << >>
  /\ dirs = {}
  /\ run = 1
  /\ pc = "plot1"
  /\ idx = 1
  /\ log = << >>
  /\ io = << >>
  /\ frames = << >>
  /\ renders = << >>
  /\ best = << >>
  /\ prev = NoOutput

\* the state an iteration starts from
Cur ==
  [df |-> EmptyFrame, keys |-> << >>, means |-> << >>, exc |-> FALSE,
   log |-> log, io |-> io, figures |-> figures, dirs |-> dirs,
   frames |-> frames, renders |-> renders, best |-> best]

\* the state an iteration leaves, and the place the script goes on from
Leave(acc, next) ==
  /\ log' = acc.log
  /\ io' = acc.io
  /\ figures' = acc.figures
  /\ dirs' = acc.dirs
  /\ frames' = acc.frames
  /\ renders' = acc.renders
  /\ best' = acc.best
  /\ IF acc.exc
       THEN pc' = "crashed" /\ idx' = idx
       ELSE IF idx < Len(active_bases)
         THEN pc' = pc /\ idx' = idx + 1
         ELSE pc' = next /\ idx' = 1
  /\ UNCHANGED << fs, run, prev >>

\* one iteration of "for basis in active_bases" of Plot 1
Plot1 ==
  /\ pc = "plot1"
  /\ LET acc == Plot1Body(Cur, active_bases[idx])
     IN  Leave(acc, "plot2")

\* one iteration of the loop of Plot 2
Plot2 ==
  /\ pc = "plot2"
  /\ LET acc == Plot2Body(Cur, active_bases[idx])
     IN  Leave(acc, "plot3")

\* one iteration of the loop of Plot 3
Plot3 ==
  /\ pc = "plot3"
  /\ LET acc == Plot3Body(Cur, active_bases[idx])
     IN  Leave(acc, "done")

\* the script is run again: a new process over the same files and figures
StartRun ==
  /\ pc = "done"
  /\ run < MaxRuns
  /\ run' = run + 1
  /\ pc' = "plot1"
  /\ idx' = 1
  /\ prev' = [frames |-> frames, renders |-> renders, best |-> best,
              log |-> log, io |-> io, figs |-> DOMAIN figures]
  /\ log' = << >>
  /\ io' = << >>
  /\ frames' = << >>
  /\ renders' = << >>
  /\ best' = << >>
  /\ UNCHANGED << fs, figures, dirs >>

Next == Plot1 \/ Plot2 \/ Plot3 \/ StartRun

Spec == Init /\ [][Next]_vars

-----------------------------------------------------------------------------
(* Vocabulary of the properties                                            *)

Active == { b \in BasisNames : ConfigOf(b).active }

Inactive == BasisNames \ Active

FilterSet == { "g0", "g1", "g2", "g3" }

ModelSet == { "APPNP", "AFDGCN", "GPRGNN" }

Pos(f) == CHOOSE i \in 1..4 : << "g0", "g1", "g2", "g3" >>[i] = f

\* the paths of the input files, tabulated
FilterFile == [ b \in BasisNames |-> [ f \in FilterSet |-> GarnoldiPath(b, f) ] ]

ModelFile == [ b \in BasisNames |-> [ m \in ModelSet |-> ModelPath(m, b) ] ]

\* the number of rows of the file at a path, 0 when it is missing
RowCount(p) == IF fs[p].exists THEN Len(fs[p].rows) ELSE 0

RECURSIVE SeqSum(_)
SeqSum(q) == IF q = << >> THEN 0 ELSE q[1] + SeqSum(Tail(q))

\* the "Validation MAE" values of the rows of df that were read from path p
MaeFrom(df, p) ==
  LET rows == SelectSeq(df, LAMBDA row : row.src = p)
  IN  [ r \in DOMAIN rows |-> rows[r].mae ]

Finished == pc = "done"

\* the line a pass prints when it starts on a basis
Headers ==
  [ k \in 1..3 |->
      [ b \in BasisNames |->
          "[BASIS: " \o ConfigOf(b).display_name \o "] "
            \o (CASE k = 1 -> "Loading Garnoldi filter data..."
                  [] k = 2 -> "Comparing all models..."
                  [] k = 3 -> "Selecting best Garnoldi filter...") ] ]

Header(k, b) == Headers[k][b]

HeaderLines == { Headers[k][b] : k \in 1..3, b \in BasisNames }

-----------------------------------------------------------------------------
(* C1 *)

\* C1: for every basis whose active flag is false, in every run and in each
\* of the three passes, no input file of the basis is checked for or read,
\* no directory or figure of the basis is written, and no iteration of a
\* pass is about it.
C1_InactiveUntouched ==
  \A b \in Inactive :
    /\ \A i \in DOMAIN io : io[i][2][2] # Lower(b)
    /\ \A p \in DOMAIN figures : p[2] # Lower(b)
    /\ \A d \in dirs : Len(d) < 2 \/ d[2] # Lower(b)
    /\ \A i \in DOMAIN frames : frames[i].basis # b
    /\ \A i \in DOMAIN renders : renders[i].basis # b
    /\ \A i \in DOMAIN log : \A k \in 1..3 : log[i] # Header(k, b)

\* a finished run that wrote figures while every file of every inactive
\* basis was there to be read
C1_Witness ==
  /\ Finished
  /\ DOMAIN figures # {}
  /\ \A b \in Inactive :
       /\ \A f \in FilterSet : fs[FilterFile[b][f]].exists
       /\ \A m \in ModelSet : fs[ModelFile[b][m]].exists

-----------------------------------------------------------------------------
(* C2 *)

\* C2: in Plot 3 the selected filter is one whose file exists and whose mean
\* is the lowest among the filters whose file exists, the first of them in
\* the order g0, g1, g2, g3 when several share the lowest mean.
C2_BestIsLowestMean ==
  \A b \in DOMAIN best :
    LET sel    == best[b].filter
        ex     == { f \in FilterSet : fs[FilterFile[b][f]].exists }
        num(f) == SeqSum(fs[FilterFile[b][f]].rows)
        den(f) == Len(fs[FilterFile[b][f]].rows)
        lt(f, g) == num(f) * den(g) < num(g) * den(f)
    IN  /\ sel \in ex
        /\ \A f \in ex : den(f) > 0 => (den(sel) > 0 /\ ~lt(f, sel))
        /\ \A f \in ex : (den(f) > 0 /\ Pos(f) < Pos(sel)) => lt(sel, f)

-----------------------------------------------------------------------------
(* C3 *)

\* C3: the combined table of Plot 1 has as many rows as the existing filter
\* files of the basis have together; every row carries as Filter the filter
\* of the file it was read from; the rows read from a file are the rows of
\* that file; a missing file contributes no row and its filter is not among
\* the categories of the table.
C3_Plot1Aggregation ==
  \A i \in DOMAIN frames :
    frames[i].pass = 1 =>
      LET b  == frames[i].basis
          df == frames[i].data
      IN  /\ Len(df) = RowCount(FilterFile[b]["g0"]) + RowCount(FilterFile[b]["g1"])
                         + RowCount(FilterFile[b]["g2"]) + RowCount(FilterFile[b]["g3"])
          /\ \A r \in DOMAIN df :
               \E f \in FilterSet :
                 /\ df[r].src = FilterFile[b][f]
                 /\ fs[FilterFile[b][f]].exists
                 /\ "Filter" \in DOMAIN df[r].cols
                 /\ df[r].cols["Filter"] = f
          /\ \A f \in FilterSet :
               IF fs[FilterFile[b][f]].exists
                 THEN MaeFrom(df, FilterFile[b][f]) = fs[FilterFile[b][f]].rows
                 ELSE \A r \in DOMAIN df :
                        df[r].src # FilterFile[b][f] /\ df[r].cols["Filter"] # f

\* Plot 1 has combined a one-row file and a two-row file of a basis that
\* misses another filter file
C3_Witness ==
  \E i \in DOMAIN frames :
    /\ frames[i].pass = 1
    /\ Len(frames[i].data) = 3
    /\ \E f \in FilterSet : ~fs[FilterFile[frames[i].basis][f]].exists

-----------------------------------------------------------------------------
(* C4 *)

\* the iteration of pass k on basis b has been gone through in this run
Attempted(k, b) ==
  \E i \in DOMAIN frames : frames[i].pass = k /\ frames[i].basis = b

\* pass k has written its figure for basis b in this run
Drawn(k, b) ==
  \E i \in DOMAIN renders : renders[i].pass = k /\ renders[i].basis = b

\* the path of a figure named <stem>_<basis_lower>.png
FigPaths ==
  [ stem \in { "garnoldi_filter_boxplot", "all_models_comparison_cleaned",
               "best_garnoldi_vs_models" } |->
      [ b \in BasisNames |->
          << "figures", Lower(b), stem \o "_" \o Lower(b) \o ".png" >> ] ]

Fig(b, stem) == FigPaths[stem][b]

\* the path figures/<basis_lower>/all_models_comparison_<basis_lower>_cleaned.png
FigCleanedLast ==
  [ b \in BasisNames |->
      << "figures", Lower(b),
         "all_models_comparison_" \o Lower(b) \o "_cleaned.png" >> ]

NoFilterFile(b) == \A f \in FilterSet : ~fs[FilterFile[b][f]].exists

FilterRows(b) == \E f \in FilterSet : RowCount(FilterFile[b][f]) > 0

ModelRowsIn(b) == \E m \in ModelSet : RowCount(ModelFile[b][m]) > 0

\* C4: when none of the four filter files of a basis exists, Plot 3 prints
\* its skip notice for the basis and writes no best_garnoldi_vs_models
\* figure for it, whatever model files exist; no exception is raised, the
\* remaining active bases are processed, and the figures of Plot 1 and
\* Plot 2 of every other basis depend on the files of that basis alone.
C4_NoFilterSkipsPlot3 ==
  /\ pc # "crashed"
  /\ \A b \in Active :
       NoFilterFile(b) =>
         /\ Fig(b, "best_garnoldi_vs_models") \notin DOMAIN figures
         /\ ~Drawn(3, b)
         /\ Attempted(3, b) =>
              \E i \in DOMAIN log :
                /\ log[i] = Header(3, b)
                /\ i < Len(log)
                /\ log[i + 1] = "No valid Garnoldi files found."
         /\ Finished =>
              \A c \in Active \ { b } :
                /\ Attempted(3, c)
                /\ Drawn(1, c) <=> FilterRows(c)
                /\ Drawn(2, c) <=> (FilterRows(c) \/ ModelRowsIn(c))

\* the first active basis has model files and no filter file, and Plot 3
\* went on to draw the figure of the basis after it
C4_Witness ==
  /\ Finished
  /\ NoFilterFile("Chebyshev")
  /\ \A m \in ModelSet : fs[ModelFile["Chebyshev"][m]].exists
  /\ Attempted(3, "Chebyshev")
  /\ Drawn(3, "Legendre")

-----------------------------------------------------------------------------
(* C5 *)

\* every savefig of this run came right after the makedirs of its directory,
\* which exists, and left this run's figure at its path
WriteDiscipline ==
  \A i \in DOMAIN io :
    io[i][1] = "savefig" =>
      /\ i > 1
      /\ io[i - 1] = << "makedirs", Dirname(io[i][2]) >>
      /\ Dirname(io[i][2]) \in dirs
      /\ io[i][2] \in DOMAIN figures
      /\ figures[io[i][2]].run = run

\* the figure of every pass is at the path given for the pass, and nothing
\* else is among the figures
FiguresAt(p1, p2, p3) ==
  /\ \A p \in DOMAIN figures :
       \E b \in Active :
         p \in { p1[b], p2[b], p3[b] }
  /\ \A i \in DOMAIN renders :
       LET r == renders[i]
       IN  r.path = (CASE r.pass = 1 -> p1[r.basis]
                       [] r.pass = 2 -> p2[r.basis]
                       [] r.pass = 3 -> p3[r.basis])

\* C5 as stated: every figure is written to one of
\* figures/<basis_lower>/garnoldi_filter_boxplot_<basis_lower>.png,
\* figures/<basis_lower>/all_models_comparison_cleaned_<basis_lower>.png and
\* figures/<basis_lower>/best_garnoldi_vs_models_<basis_lower>.png, after its
\* directory was created, replacing the file that was there.
C5_FiguresAtStatedPaths ==
  /\ FiguresAt(FigPaths["garnoldi_filter_boxplot"],
               FigPaths["all_models_comparison_cleaned"],
               FigPaths["best_garnoldi_vs_models"])
  /\ WriteDiscipline

\* C5 as amended: the figure of Plot 2 is written to
\* figures/<basis_lower>/all_models_comparison_<basis_lower>_cleaned.png,
\* those of Plot 1 and Plot 3 to the paths stated; each after its directory
\* was created, replacing the file that was there.
C5_FiguresAtWrittenPaths ==
  /\ FiguresAt(FigPaths["garnoldi_filter_boxplot"], FigCleanedLast,
               FigPaths["best_garnoldi_vs_models"])
  /\ WriteDiscipline

\* a second run has replaced the three figures the first run left for a basis
C5_Witness ==
  /\ Finished
  /\ run = 2
  /\ \E b \in Active :
       /\ Drawn(1, b) /\ Drawn(2, b) /\ Drawn(3, b)
       /\ \A i \in DOMAIN renders :
            renders[i].basis = b =>
              /\ renders[i].path \in prev.figs
              /\ figures[renders[i].path].run = 2

-----------------------------------------------------------------------------
(* C6 *)

\* h is an integer nearest to n / d
Nearest(h, n, d) == 2 * (h * d - n) <= d /\ 2 * (n - h * d) <= d

\* the rows of a figure's table that belong to a category of its x axis
Group(r, cat) ==
  SelectSeq(r.data,
            LAMBDA row : row.cols[IF r.pass = 1 THEN "Filter" ELSE "Model"] = cat)

\* C6: the mean of a category is annotated in Plot 2 as mean/1000 with two
\* decimals followed by K when the mean is at least 1000 and as the mean with
\* two decimals otherwise (850.0 as 850.00, 1250.0 as 1.25K, 3.456 as 3.46);
\* in Plot 1 and Plot 3 always as the mean with two decimals and no suffix.
C6_MeanLabels ==
  \A i \in DOMAIN renders :
    \A j \in DOMAIN renders[i].notes :
      LET r     == renders[i]
          note  == r.notes[j]
          rows  == Group(r, note.cat)
          total == SeqSum([ k \in DOMAIN rows |-> rows[k].mae ])
          count == Len(rows)
      IN  /\ count > 0
          /\ IF r.pass = 2 /\ total >= 1000 * 1000 * count
               THEN /\ note.label.suffix = "K"
                    /\ Nearest(note.label.hund, total, 10000 * count)
               ELSE /\ note.label.suffix = ""
                    /\ Nearest(note.label.hund, total, 10 * count)
          /\ (r.pass = 2 /\ note.cat = "AFDGCN") =>
               note.label = [hund |-> 85000, suffix |-> ""]
          /\ (r.pass = 2 /\ note.cat = "APPNP") =>
               note.label = [hund |-> 125, suffix |-> "K"]
          /\ (r.pass = 2 /\ note.cat = "GPRGNN") =>
               note.label = [hund |-> 346, suffix |-> ""]
          /\ (r.pass = 3 /\ note.cat = "APPNP") =>
               note.label = [hund |-> 125000, suffix |-> ""]

\* a mean of exactly 1000.0 was printed 1000.00 in Plot 1 and 1.00K in Plot 2,
\* and Plot 2 printed the means 1250.0, 850.0 and 3.456
C6_Witness ==
  /\ \E i \in DOMAIN renders :
       /\ renders[i].pass = 1
       /\ \E j \in DOMAIN renders[i].notes :
            renders[i].notes[j].label = [hund |-> 100000, suffix |-> ""]
  /\ \E i \in DOMAIN renders :
       /\ renders[i].pass = 2
       /\ \E j \in DOMAIN renders[i].notes :
            renders[i].notes[j].label = [hund |-> 100, suffix |-> "K"]
       /\ { "APPNP", "AFDGCN", "GPRGNN" } \subseteq
            { renders[i].notes[j].cat : j \in DOMAIN renders[i].notes }

-----------------------------------------------------------------------------
(* C7 *)

\* the combined table pass k ended with for basis b in this run
FrameOf(k, b) ==
  frames[CHOOSE i \in DOMAIN frames :
           frames[i].pass = k /\ frames[i].basis = b].data

\* how many times an operation was performed on a path in this run
Count(op, p) == Cardinality({ i \in DOMAIN io : io[i] = << op, p >> })

\* the three passes were gone through for every active basis; every
\* existing file is in the table of every pass that considers it (in Plot 3
\* the model files, when a filter file exists), whatever other files are
\* missing; every path was checked once per pass that considers it and no
\* missing file was read
RunComplete ==
  \A b \in Active :
    /\ \A k \in 1..3 :
         Attempted(k, b) /\ \E i \in DOMAIN log : log[i] = Header(k, b)
    /\ \A f \in FilterSet :
         LET p == FilterFile[b][f]
         IN  /\ Count("exists", p) = 3
             /\ ~fs[p].exists => Count("read", p) = 0
             /\ fs[p].exists =>
                  /\ MaeFrom(FrameOf(1, b), p) = fs[p].rows
                  /\ MaeFrom(FrameOf(2, b), p) = fs[p].rows
    /\ \A m \in ModelSet :
         LET p == ModelFile[b][m]
         IN  /\ Count("exists", p) = IF NoFilterFile(b) THEN 1 ELSE 2
             /\ ~fs[p].exists => Count("read", p) = 0
             /\ fs[p].exists =>
                  /\ MaeFrom(FrameOf(2, b), p) = fs[p].rows
                  /\ ~NoFilterFile(b) => MaeFrom(FrameOf(3, b), p) = fs[p].rows

\* C7: whatever input files are present or missing, no exception is raised,
\* a run that has not ended is at an iteration of one of the three loops,
\* which it can go through, and it ends after the three passes were gone
\* through for every active basis; a missing file keeps no other basis,
\* plot or category from being processed, and no file operation is tried
\* again.
C7_MissingFilesNeverFatal ==
  /\ pc # "crashed"
  /\ Finished \/ (pc \in { "plot1", "plot2", "plot3" } /\ idx \in 1..Cardinality(Active))
  /\ Finished => RunComplete

\* a run ended in which the first active basis missed a filter file and a
\* model file and both bases got their three figures
C7_Witness ==
  /\ Finished
  /\ \E f \in FilterSet : ~fs[FilterFile["Chebyshev"][f]].exists
  /\ \E m \in ModelSet : ~fs[ModelFile["Chebyshev"][m]].exists
  /\ \A k \in 1..3 : Drawn(k, "Chebyshev") /\ Drawn(k, "Legendre")

-----------------------------------------------------------------------------
(* C8 *)

\* C8: a run over unchanged files ends with the combined tables, the figures
\* handed to the renderer (tables, annotated means, paths) and the selected
\* best filters of the run before it, and has written every figure file
\* again at its path without adding a file.
C8_SecondRunSame ==
  (Finished /\ run >= 2) =>
    /\ frames = prev.frames
    /\ renders = prev.renders
    /\ best = prev.best
    /\ DOMAIN figures = prev.figs
    /\ \A p \in DOMAIN figures : figures[p].run = run

\* a second run has ended that drew six figures and selected two best filters
C8_Witness ==
  /\ Finished
  /\ run = 2
  /\ Len(renders) = 6
  /\ DOMAIN best = Active

-----------------------------------------------------------------------------
(* C9 *)

IsHeader(line) == line \in HeaderLines

\* the lines printed by the iteration of pass k on basis b, after its header
Section(k, b) ==
  LET i    == CHOOSE j \in DOMAIN log : log[j] = Header(k, b)
      stop == { j \in (i + 1)..Len(log) : IsHeader(log[j]) }
      last == IF stop = {} THEN Len(log)
              ELSE (CHOOSE j \in stop : \A x \in stop : j <= x) - 1
  IN  SubSeq(log, i + 1, last)

\* none of the files pass k considers for basis b exists
NoneExists(k, b) ==
  /\ NoFilterFile(b)
  /\ k = 1 \/ \A m \in ModelSet : ~fs[ModelFile[b][m]].exists

\* the path of the figure of pass k for basis b
FigureOf(k, b) ==
  CASE k = 1 -> Fig(b, "garnoldi_filter_boxplot")
    [] k = 2 -> FigCleanedLast[b]
    [] k = 3 -> Fig(b, "best_garnoldi_vs_models")

\* no figure for an iteration that found no file, no exception; a figure
\* whenever files were found and contributed rows to the combined table
SkipsAndDraws(k, b) ==
  /\ NoneExists(k, b) =>
       /\ ~Drawn(k, b)
       /\ FigureOf(k, b) \notin DOMAIN figures
  /\ Len(FrameOf(k, b)) > 0 => Drawn(k, b)

\* the four lines Plot 1 prints for a basis without any filter file
MissingLines ==
  [ b \in BasisNames |->
      [ n \in 1..4 |->
          "Missing file: mae_values_garnoldi_" \o Lower(b)
             \o "_" \o << "g0", "g1", "g2", "g3" >>[n] \o ".csv" ] ]

\* C9 as stated: in each pass, for an active basis none of whose considered
\* files exists, the figure is not written, a line reporting the skip is
\* printed and no exception is raised; a figure is written whenever a
\* considered file was found and contributed rows.
C9_EmptyAggregateLogged ==
  /\ pc # "crashed"
  /\ \A b \in Active : \A k \in 1..3 :
       Attempted(k, b) =>
         /\ SkipsAndDraws(k, b)
         /\ NoneExists(k, b) => Section(k, b) # << >>

\* C9 as amended: as stated, except for the printed lines: Plot 1 prints one
\* "Missing file" line per filter file, Plot 3 prints "No valid Garnoldi
\* files found.", and Plot 2 prints nothing about the skip.
C9_EmptyAggregateSkipped ==
  /\ pc # "crashed"
  /\ \A b \in Active : \A k \in 1..3 :
       Attempted(k, b) =>
         /\ SkipsAndDraws(k, b)
         /\ NoneExists(k, b) =>
              Section(k, b) =
                (CASE k = 1 -> MissingLines[b]
                   [] k = 2 -> << >>
                   [] k = 3 -> << "No valid Garnoldi files found." >>)

\* a run ended in which one active basis had no file at all and the other
\* one got its figures
C9_Witness ==
  /\ Finished
  /\ \E b \in Active :
       /\ \A k \in 1..3 : NoneExists(k, b) /\ Attempted(k, b)
       /\ \E c \in Active : Drawn(1, c) /\ Drawn(2, c) /\ Drawn(3, c)

-----------------------------------------------------------------------------
(* C10 *)

\* the category a pass gives the rows read from the file at path p of basis b
Tags ==
  [ k \in 1..3 |->
      [ b \in BasisNames |->
          [ p \in { FilterFile[b][f] : f \in FilterSet }
                    \cup { ModelFile[b][m] : m \in ModelSet } |->
              IF \E f \in FilterSet : p = FilterFile[b][f]
                THEN LET f == CHOOSE x \in FilterSet : p = FilterFile[b][x]
                     IN  IF k = 1 THEN f ELSE "Garnoldi-" \o f
                ELSE CHOOSE m \in ModelSet : p = ModelFile[b][m] ] ] ]

\* every row of every figure's table was read from an existing file of the
\* basis and carries the columns added by the script (plot1cols in Plot 1,
\* Model in Plots 2 and 3), the category column holding the category of
\* that file
TaggedWith(plot1cols) ==
  \A i \in DOMAIN renders :
    LET r   == renders[i]
        col == IF r.pass = 1 THEN "Filter" ELSE "Model"
    IN  \A n \in DOMAIN r.data :
          LET row == r.data[n]
          IN  /\ row.src \in DOMAIN Tags[r.pass][r.basis]
              /\ fs[row.src].exists
              /\ DOMAIN row.cols = IF r.pass = 1 THEN plot1cols ELSE { "Model" }
              /\ col \in DOMAIN row.cols
              /\ row.cols[col] = Tags[r.pass][r.basis][row.src]
              /\ "Basis" \in DOMAIN row.cols =>
                   row.cols["Basis"] = ConfigOf(r.basis).display_name

\* C10 as stated: every row of a table handed to the renderer carries exactly
\* one category column added by the script (Filter in Plot 1, Model in Plots
\* 2 and 3) whose value identifies the file the row was read from, and no
\* category of a missing file is in the table.
C10_OneTagPerRow == TaggedWith({ "Filter" })

\* C10 as amended: the rows of Plot 1 carry two columns added by the script,
\* Filter and Basis (the display name of the basis); the rows of Plots 2 and
\* 3 carry exactly one, Model; the rest as stated.
C10_TagsPerRow == TaggedWith({ "Filter", "Basis" })

\* the three tables of a basis with a missing filter file and a missing model
\* file were handed to the renderer
C10_Witness ==
  \E b \in Active :
    /\ Drawn(1, b) /\ Drawn(2, b) /\ Drawn(3, b)
    /\ \E f \in FilterSet : ~fs[FilterFile[b][f]].exists
    /\ \E m \in ModelSet : ~fs[ModelFile[b][m]].exists
    /\ \E m \in ModelSet : fs[ModelFile[b][m]].exists

=============================================================================
